---- MODULE Spec2Model ----
(***************************************************************************)
(* Lyzr Style Transformer page: the response extractor (extractImageUrl,   *)
(* extractTransformationDetails) and the transform workflow of the Page    *)
(* component (handleFileSelect, handleRemoveFile, handleTransform).        *)
(*                                                                         *)
(* JavaScript values are tagged records, so that a field of any JSON type  *)
(* can sit at any place of an envelope.  A string is a sequence of tokens  *)
(* (pieces of text); the empty string is the empty sequence.               *)
(***************************************************************************)
EXTENDS Integers, Sequences, FiniteSets, TLC

VARIABLES
    selectedFile,           \* useState<File | null>
    previewUrl,             \* useState<string | null>
    styleNote,              \* useState('')
    isTransforming,         \* useState(false)
    resultImageUrl,         \* useState<string | null>
    transformationDetails,  \* useState<{...} | null>
    error,                  \* useState<string | null>
    showComparison,         \* useState(false)
    statusMessage,          \* useState<string | null>
    useSampleData,          \* useState(false)
    runs,                   \* the handleTransform invocations suspended at an await
    lastOp,                 \* the handler that ran last, with what it saw
    envelope,               \* the argument of extractImageUrl (extractor specification)
    imageUrl,               \* what extractImageUrl returned for envelope
    calls,                  \* number of extractor calls made on envelope
    previous,               \* envelope and result as they were before the last call
    details                 \* what extractTransformationDetails returned for envelope

vars == <<selectedFile, previewUrl, styleNote, isTransforming, resultImageUrl,
          transformationDetails, error, showComparison, statusMessage,
          useSampleData, runs, lastOp, envelope, imageUrl, calls, previous, details>>

pageVars == <<selectedFile, previewUrl, styleNote, isTransforming, resultImageUrl,
              transformationDetails, error, showComparison, statusMessage,
              useSampleData, runs, lastOp>>

extractVars == <<envelope, imageUrl, calls, previous, details>>

-----------------------------------------------------------------------------
(* JavaScript values *)

Undef == [t |-> "undefined"]
JNull == [t |-> "null"]
Str(s) == [t |-> "string", s |-> s]
Num(n) == [t |-> "number", n |-> n]
Bool(b) == [t |-> "boolean", b |-> b]
Arr(a) == [t |-> "array", a |-> a]
Obj(o) == [t |-> "object", o |-> o]     \* o: sequence of <<key, value>>, in key order

\* ToBoolean: what `if (v)` and `v || w` test
Truthy(v) ==
    CASE v.t = "undefined" -> FALSE
      [] v.t = "null" -> FALSE
      [] v.t = "string" -> v.s # <<>>
      [] v.t = "number" -> v.n # 0
      [] v.t = "boolean" -> v.b
      [] OTHER -> TRUE

\* v || w
Or(v, w) == IF Truthy(v) THEN v ELSE w

\* v?.k for the keys the page reads: a property of a mapping, undefined on
\* undefined, null, and on values that hold no such key
Get(v, k) ==
    IF v.t = "object" /\ \E i \in DOMAIN v.o : v.o[i][1] = k
    THEN LET i == CHOOSE j \in DOMAIN v.o : v.o[j][1] = k IN v.o[i][2]
    ELSE Undef

IsArray(v) == v.t = "array"

\* Array.isArray(v) && v.length > 0
NonEmptyArray(v) == IsArray(v) /\ Len(v.a) > 0

\* v[0] of a non-empty array
Elem0(v) == v.a[1]

\* [mo[key] : key of Object.keys(mo)]: the values of a mapping in key order,
\* the elements of an array; a string's characters are never arrays and a
\* number or boolean has no keys
Values(v) ==
    CASE v.t = "object" -> [i \in DOMAIN v.o |-> v.o[i][2]]
      [] v.t = "array" -> v.a
      [] OTHER -> <<>>

\* typeof v === 'object' (null is excluded by the truthiness test beside it)
TypeofObject(v) == v.t \in {"object", "array", "null"}

-----------------------------------------------------------------------------
(* Text: tokens, the URL patterns, JSON.stringify and JSON.parse *)

SP == " "
DQ == "\""
SQ == "'"
LT == "<"
GT == ">"
BS == "\\"

\* the /i flag: the letters of a token folded to lower case
Lower(tok) ==
    CASE tok = "HTTP://" -> "http://"
      [] tok = "HTTPS://" -> "https://"
      [] tok = ".PNG" -> ".png"
      [] tok = ".JPG" -> ".jpg"
      [] tok = ".SVG" -> ".svg"
      [] OTHER -> tok

\* https?:\/\/
Schemes == {"http://", "https://"}

\* [^\s"'<>] of the message pattern: the characters a URL does not run over
MessageExcluded == {SP, DQ, SQ, LT, GT}

\* [^\s"'<>\\] of the raw_response pattern
RawExcluded == {SP, DQ, SQ, LT, GT, BS}

\* \.(png|jpg|jpeg|webp|gif|svg|bmp)
MessageExts == {".png", ".jpg", ".jpeg", ".webp", ".gif", ".svg", ".bmp"}

\* \.(png|jpg|jpeg|webp|gif)
RawExts == {".png", ".jpg", ".jpeg", ".webp", ".gif"}

Min(S) == CHOOSE x \in S : \A y \in S : x <= y
Max(S) == CHOOSE x \in S : \A y \in S : x >= y

\* text.match(/https?:\/\/[^...]+\.(ext|...)/i): the leftmost start; from it
\* the greedy run of allowed characters (at least one), given back until an
\* extension follows.  Returns urlMatch[0], or null when nothing matches.
matchUrl(text, exts, excluded) ==
    LET n == Len(text)
        InRun(i, j) == \A k \in (i + 1)..j : text[k] \notin excluded
        Ends(i) == {j \in (i + 2)..n : Lower(text[j]) \in exts /\ InRun(i, j)}
        Starts == {i \in 1..n : Lower(text[i]) \in Schemes /\ Ends(i) # {}}
    IN  IF Starts = {} THEN JNull
        ELSE LET i == Min(Starts) IN Str(SubSeq(text, i, Max(Ends(i))))

RECURSIVE Join(_)
\* the pieces of a sequence, separated by commas
Join(pieces) ==
    IF pieces = <<>> THEN <<>>
    ELSE IF Len(pieces) = 1 THEN pieces[1]
    ELSE pieces[1] \o <<",">> \o Join(Tail(pieces))

RECURSIVE Escape(_)
\* the characters of a string as JSON writes them: \" and \\
Escape(s) ==
    IF s = <<>> THEN <<>>
    ELSE (IF Head(s) \in {DQ, BS} THEN <<BS, Head(s)>> ELSE <<Head(s)>>) \o Escape(Tail(s))

RECURSIVE stringify(_)
\* JSON.stringify(v), without indentation
stringify(v) ==
    CASE v.t = "string" -> <<DQ>> \o Escape(v.s) \o <<DQ>>
      [] v.t = "number" -> <<ToString(v.n)>>
      [] v.t = "boolean" -> <<IF v.b THEN "true" ELSE "false">>
      [] v.t = "array" ->
            <<"[">> \o Join([i \in DOMAIN v.a |-> stringify(v.a[i])]) \o <<"]">>
      [] v.t = "object" ->
            <<"{">> \o Join([i \in DOMAIN v.o |->
                        <<DQ, v.o[i][1], DQ, ":">> \o stringify(v.o[i][2])]) \o <<"}">>
      [] OTHER -> <<"null">>

\* what JSON.parse throws
SyntaxError == [t |-> "SyntaxError"]

\* the good URL stored at a place of an envelope: a one-token string naming the place
U(place) == Str(<<place>>)

\* documents a raw_response may serialize
JsonDoc1 ==
    Obj(<< <<"module_outputs",
             Obj(<< <<"artifact_files",
                      Arr(<< Obj(<< <<"file_url", U("raw.module_outputs")>> >>) >>)>> >>)>> >>)
JsonDoc2 ==
    Obj(<< <<"response",
             Obj(<< <<"module_outputs",
                      Obj(<< <<"artifact_files",
                               Arr(<< Obj(<< <<"file_url", U("raw.response.module_outputs")>> >>) >>)>> >>)>> >>)>> >>)
JsonDoc3 ==
    Obj(<< <<"module_outputs", Obj(<< <<"artifact_files", Arr(<<>>)>> >>)>>,
           <<"response",
             Obj(<< <<"module_outputs",
                      Obj(<< <<"artifact_files",
                               Arr(<< Obj(<< <<"file_url", U("raw.response.module_outputs")>> >>) >>)>> >>)>> >>)>> >>)
JsonDoc4 == Obj(<< <<"note", Str(<<"https://", "cdn/raw", ".png">>)>> >>)
JsonDoc5 ==
    Obj(<< <<"module_outputs",
             Obj(<< <<"artifact_files", Arr(<< Obj(<< <<"file_url", Str(<<>>)>> >>) >>)>> >>)>> >>)
JsonDoc6 == Str(<<"https://", "cdn/raw", ".gif">>)

JsonDocs == {JsonDoc1, JsonDoc2, JsonDoc3, JsonDoc4, JsonDoc5, JsonDoc6, JNull, Num(7)}

\* JSON.parse(text): the document that text serializes, SyntaxError when it
\* serializes none
JSONParse(text) ==
    IF \E d \in JsonDocs : stringify(d) = text
    THEN CHOOSE d \in JsonDocs : stringify(d) = text
    ELSE SyntaxError

-----------------------------------------------------------------------------
(* extractImageUrl *)

\* a path of the cascade either returns a value or falls through to the next
Miss == [ret |-> FALSE]
Ret(v) == [ret |-> TRUE, val |-> v]

\* files = x?.artifact_files; if (files) { if (Array.isArray(files) &&
\* files.length > 0 && files[0]?.file_url) return files[0].file_url }
ArtifactFileUrl(holder) ==
    LET files == Get(holder, "artifact_files")
    IN  IF Truthy(files) /\ NonEmptyArray(files) /\ Truthy(Get(Elem0(files), "file_url"))
        THEN Ret(Get(Elem0(files), "file_url"))
        ELSE Miss

\* Path 1: module_outputs.artifact_files at top level
Path1(result) == ArtifactFileUrl(Get(result, "module_outputs"))

\* Path 2: module_outputs at top level with other structures
Path2(result) ==
    LET mo == Get(result, "module_outputs")
        vals == Values(mo)
        Hit(i) == /\ NonEmptyArray(vals[i])
                  /\ \/ Truthy(Get(Elem0(vals[i]), "file_url"))
                     \/ Truthy(Get(Elem0(vals[i]), "url"))
    IN  IF ~Truthy(mo) THEN Miss
        ELSE IF Truthy(Get(mo, "url")) THEN Ret(Get(mo, "url"))
        ELSE IF Truthy(Get(mo, "image_url")) THEN Ret(Get(mo, "image_url"))
        ELSE IF \E i \in DOMAIN vals : Hit(i)
             THEN LET i == Min({j \in DOMAIN vals : Hit(j)})
                      e == Elem0(vals[i])
                  IN  Ret(IF Truthy(Get(e, "file_url")) THEN Get(e, "file_url") ELSE Get(e, "url"))
             ELSE Miss

\* the keys of response.result read directly, in the order of the code
ResultKeys == <<"image_url", "url", "image", "output_image", "generated_image", "file_url">>

\* Path 3 ending `|| ''` instead of `|| null`
Path3_EmptyDefault(result) ==
    LET r == Get(Get(result, "response"), "result")
        Has(i) == Truthy(Get(r, ResultKeys[i]))
    IN  IF ~(Truthy(r) /\ TypeofObject(r)) THEN Miss
        ELSE IF \E i \in DOMAIN ResultKeys : Has(i)
             THEN Ret(Get(r, ResultKeys[Min({j \in DOMAIN ResultKeys : Has(j)})]))
        ELSE IF NonEmptyArray(Get(r, "artifact_files"))
             THEN LET e == Elem0(Get(r, "artifact_files"))
                  IN  Ret(Or(Get(e, "file_url"), Or(Get(e, "url"), Str(<<>>))))
        ELSE ArtifactFileUrl(Get(r, "module_outputs"))

\* Path 3: response.result may contain image URL
Path3(result) ==
    LET r == Get(Get(result, "response"), "result")
        Has(i) == Truthy(Get(r, ResultKeys[i]))
    IN  IF ~(Truthy(r) /\ TypeofObject(r)) THEN Miss
        ELSE IF \E i \in DOMAIN ResultKeys : Has(i)
             THEN Ret(Get(r, ResultKeys[Min({j \in DOMAIN ResultKeys : Has(j)})]))
        ELSE IF NonEmptyArray(Get(r, "artifact_files"))
             THEN LET e == Elem0(Get(r, "artifact_files"))
                  IN  Ret(Or(Get(e, "file_url"), Or(Get(e, "url"), JNull)))
        ELSE ArtifactFileUrl(Get(r, "module_outputs"))

\* Path 4 returning the whole message when the pattern matches
Path4_WholeMessage(result) ==
    LET message == Get(Get(result, "response"), "message")
    IN  IF Truthy(message) /\ message.t = "string"
           /\ matchUrl(message.s, MessageExts, MessageExcluded) # JNull
        THEN Ret(message)
        ELSE Miss

\* Path 4: Check response.message for URL patterns
Path4(result) ==
    LET message == Get(Get(result, "response"), "message")
    IN  IF Truthy(message) /\ message.t = "string"
           /\ matchUrl(message.s, MessageExts, MessageExcluded) # JNull
        THEN Ret(matchUrl(message.s, MessageExts, MessageExcluded))
        ELSE Miss

\* Path 5: raw_response may contain image data
Path5(result) ==
    LET rawText == Get(result, "raw_response")
        raw == JSONParse(rawText.s)
        top == ArtifactFileUrl(Get(raw, "module_outputs"))
        nested == ArtifactFileUrl(Get(Get(raw, "response"), "module_outputs"))
    IN  IF ~(Truthy(rawText) /\ rawText.t = "string") THEN Miss
        ELSE IF raw = SyntaxError
             THEN IF matchUrl(rawText.s, RawExts, RawExcluded) # JNull
                  THEN Ret(matchUrl(rawText.s, RawExts, RawExcluded))
                  ELSE Miss
        ELSE IF top.ret THEN top
        ELSE nested

\* the cascade with Path 2 consulted before Path 1
extractImageUrl_Path2First(result) ==
    IF Path2(result).ret THEN Path2(result).val
    ELSE IF Path1(result).ret THEN Path1(result).val
    ELSE IF Path3(result).ret THEN Path3(result).val
    ELSE IF Path4(result).ret THEN Path4(result).val
    ELSE IF Path5(result).ret THEN Path5(result).val
    ELSE JNull

extractImageUrl(result) ==
    IF Path1(result).ret THEN Path1(result).val
    ELSE IF Path2(result).ret THEN Path2(result).val
    ELSE IF Path3(result).ret THEN Path3(result).val
    ELSE IF Path4(result).ret THEN Path4(result).val
    ELSE IF Path5(result).ret THEN Path5(result).val
    ELSE JNull

-----------------------------------------------------------------------------
(* The envelopes the extractor is run on *)

\* at most this many places of an envelope are filled in; the others are absent
MaxPopulated == 2

\* places holding a URL directly
LeafPlaces ==
    {"module_outputs.url", "module_outputs.image_url",
     "result.image_url", "result.url", "result.image", "result.output_image",
     "result.generated_image", "result.file_url"}

\* places holding a sequence of file records
ArrayPlaces ==
    {"module_outputs.artifact_files", "module_outputs.images",
     "result.artifact_files", "result.module_outputs.artifact_files"}

Places ==
    LeafPlaces \cup ArrayPlaces
        \cup {"module_outputs", "response.result", "response.message", "raw_response"}

\* a URL, the empty string, a number, a boolean, a mapping
LeafChoices(place) == <<U(place), Str(<<>>), Num(7), Bool(TRUE), Obj(<<>>)>>

\* sequences of file records: empty, holding null, not a sequence at all,
\* holding a record with file_url, with url, with both, with neither, with
\* an empty or a non-string file_url, and one whose record comes second
ArrayChoices(place) ==
    << Arr(<<>>),
       Arr(<<JNull>>),
       Str(<<"none">>),
       Arr(<<Obj(<<>>)>>),
       Arr(<<Obj(<< <<"file_url", Str(<<place, ".file_url">>)>> >>)>>),
       Arr(<<Obj(<< <<"url", Str(<<place, ".url">>)>> >>)>>),
       Arr(<<Obj(<< <<"file_url", Str(<<place, ".file_url">>)>>,
                    <<"url", Str(<<place, ".url">>)>> >>)>>),
       Arr(<<Obj(<< <<"file_url", Str(<<>>)>>, <<"url", Str(<<place, ".url">>)>> >>)>>),
       Arr(<<Obj(<< <<"file_url", Num(7)>> >>)>>),
       Arr(<<JNull, Obj(<< <<"file_url", Str(<<place, ".1.file_url">>)>> >>)>>) >>

MessageChoices ==
    << Str(<<"see", SP, "https://", "x.com/a", ".png", SP, "here">>),
       Str(<<"done">>),
       Str(<<>>),
       Str(<<"HTTPS://", "x.com/a", ".SVG">>),
       Str(<<"http://", "a", ".jpg", SP, "https://", "b", ".gif">>),
       Str(<<"https://", "x.com/a", ".png", ".txt">>),
       Str(<<"https://", ".png">>),
       Num(7) >>

RawChoices ==
    << Str(stringify(JsonDoc1)), Str(stringify(JsonDoc2)), Str(stringify(JsonDoc3)),
       Str(stringify(JsonDoc4)), Str(stringify(JsonDoc5)), Str(stringify(JsonDoc6)),
       Str(<<"null">>),
       Str(<<"7">>),
       Str(<<"image", SP, "https://", "cdn/raw", ".png">>),
       Str(<<"https://", "cdn/raw", ".svg">>),
       Str(<<"https://", "cdn", BS, "raw", ".png">>),
       Str(<<"oops">>),
       Num(7) >>

Choices(place) ==
    CASE place \in LeafPlaces -> LeafChoices(place)
      [] place \in ArrayPlaces -> ArrayChoices(place)
      [] place = "module_outputs" -> <<JNull, Obj(<<>>), Str(<<"none">>)>>
      [] place = "response.result" ->
            <<JNull, Obj(<<>>), Str(<<"none">>),
              Arr(<< Obj(<< <<"url", U("result.0.url")>> >>) >>)>>
      [] place = "response.message" -> MessageChoices
      [] OTHER -> RawChoices

\* the sets of at most MaxPopulated places
PlaceSets == {S \in SUBSET Places : Cardinality(S) <= MaxPopulated}

MaxChoices == Max({Len(Choices(place)) : place \in Places})

\* a mapping of the pairs whose value is present, in the order given
Mapping(pairs) == Obj(SelectSeq(pairs, LAMBDA kv : kv[2] # Undef))

\* undefined instead of a mapping that would hold nothing
OrAbsent(m) == IF m.o = <<>> THEN Undef ELSE m

\* the envelope with the places of f filled in
Envelope(f) ==
    LET At(place) == IF place \in DOMAIN f THEN f[place] ELSE Undef
        mo == IF "module_outputs" \in DOMAIN f THEN f["module_outputs"]
              ELSE OrAbsent(Mapping(<<
                     <<"images", At("module_outputs.images")>>,
                     <<"artifact_files", At("module_outputs.artifact_files")>>,
                     <<"url", At("module_outputs.url")>>,
                     <<"image_url", At("module_outputs.image_url")>> >>))
        r == IF "response.result" \in DOMAIN f THEN f["response.result"]
             ELSE OrAbsent(Mapping(<<
                     <<"image_url", At("result.image_url")>>,
                     <<"url", At("result.url")>>,
                     <<"image", At("result.image")>>,
                     <<"output_image", At("result.output_image")>>,
                     <<"generated_image", At("result.generated_image")>>,
                     <<"file_url", At("result.file_url")>>,
                     <<"transformation_description", At("result.transformation_description")>>,
                     <<"description", At("result.description")>>,
                     <<"text", At("result.text")>>,
                     <<"message", At("result.message")>>,
                     <<"style_elements_applied", At("result.style_elements_applied")>>,
                     <<"styles", At("result.styles")>>,
                     <<"elements", At("result.elements")>>,
                     <<"color_palette_used", At("result.color_palette_used")>>,
                     <<"colors", At("result.colors")>>,
                     <<"palette", At("result.palette")>>,
                     <<"artifact_files", At("result.artifact_files")>>,
                     <<"module_outputs",
                       OrAbsent(Mapping(<<
                         <<"artifact_files", At("result.module_outputs.artifact_files")>> >>))>> >>))
    IN  Mapping(<<
            <<"success", IF "success" \in DOMAIN f THEN f["success"] ELSE Bool(TRUE)>>,
            <<"error", At("error")>>,
            <<"response", OrAbsent(Mapping(<< <<"result", r>>, <<"message", At("response.message")>> >>))>>,
            <<"module_outputs", mo>>,
            <<"raw_response", At("raw_response")>> >>)

\* no extractor call has been made
NotCalled == [t |-> "not called"]

-----------------------------------------------------------------------------
(* extractTransformationDetails *)

\* typeof v === 'string' ? v : JSON.stringify(v)
AsText(v) == IF v.t = "string" THEN v ELSE Str(stringify(v))

Details(desc, styles, colors) ==
    Obj(<< <<"transformation_description", desc>>,
           <<"style_elements_applied", styles>>,
           <<"color_palette_used", colors>> >>)

\* the styles read from elements before styles before style_elements_applied
extractTransformationDetails_StylesReversed(result) ==
    LET r == Get(Get(result, "response"), "result")
        desc == Or(Get(r, "transformation_description"),
                   Or(Get(r, "description"), Or(Get(r, "text"), Or(Get(r, "message"), Str(<<>>)))))
        styles == Or(Get(r, "elements"),
                     Or(Get(r, "styles"), Or(Get(r, "style_elements_applied"), Str(<<>>))))
        colors == Or(Get(r, "color_palette_used"),
                     Or(Get(r, "colors"), Or(Get(r, "palette"), Str(<<>>))))
        message == Get(Get(result, "response"), "message")
    IN  IF Truthy(r) /\ TypeofObject(r) /\ (Truthy(desc) \/ Truthy(styles) \/ Truthy(colors))
        THEN Details(AsText(desc), AsText(styles), AsText(colors))
        ELSE IF Truthy(message) THEN Details(message, Str(<<>>), Str(<<>>))
        ELSE JNull

\* without the fallback to response.message
extractTransformationDetails_NoFallback(result) ==
    LET r == Get(Get(result, "response"), "result")
        desc == Or(Get(r, "transformation_description"),
                   Or(Get(r, "description"), Or(Get(r, "text"), Or(Get(r, "message"), Str(<<>>)))))
        styles == Or(Get(r, "style_elements_applied"),
                     Or(Get(r, "styles"), Or(Get(r, "elements"), Str(<<>>))))
        colors == Or(Get(r, "color_palette_used"),
                     Or(Get(r, "colors"), Or(Get(r, "palette"), Str(<<>>))))
    IN  IF Truthy(r) /\ TypeofObject(r) /\ (Truthy(desc) \/ Truthy(styles) \/ Truthy(colors))
        THEN Details(AsText(desc), AsText(styles), AsText(colors))
        ELSE JNull

extractTransformationDetails(result) ==
    LET r == Get(Get(result, "response"), "result")
        desc == Or(Get(r, "transformation_description"),
                   Or(Get(r, "description"), Or(Get(r, "text"), Or(Get(r, "message"), Str(<<>>)))))
        styles == Or(Get(r, "style_elements_applied"),
                     Or(Get(r, "styles"), Or(Get(r, "elements"), Str(<<>>))))
        colors == Or(Get(r, "color_palette_used"),
                     Or(Get(r, "colors"), Or(Get(r, "palette"), Str(<<>>))))
        message == Get(Get(result, "response"), "message")
    IN  IF Truthy(r) /\ TypeofObject(r) /\ (Truthy(desc) \/ Truthy(styles) \/ Truthy(colors))
        THEN Details(AsText(desc), AsText(styles), AsText(colors))
        ELSE IF Truthy(message) THEN Details(message, Str(<<>>), Str(<<>>))
        ELSE JNull

-----------------------------------------------------------------------------
(* The page: files, collaborator outcomes *)

\* at most this many handleTransform invocations are suspended at once
MaxInFlight == 2

ACCEPTED_FORMATS == {"image/png", "image/jpeg", "image/webp"}

\* the files a user may pick or drop
Files ==
    { [name |-> "a.png", type |-> "image/png"],
      [name |-> "b.jpg", type |-> "image/jpeg"],
      [name |-> "c.gif", type |-> "image/gif"] }

\* URL.createObjectURL(file)
createObjectURL(file) == Str(<<"blob:", file.name>>)

\* what the user may type into the style note
StyleNotes ==
    {Str(<<>>), Str(<<SP>>), Str(<<SP, "neon", SP>>), Str(<<"neon", SP, "glow", SP, SP>>)}

RECURSIVE TrimStart(_)
TrimStart(s) == IF s # <<>> /\ Head(s) = SP THEN TrimStart(Tail(s)) ELSE s

RECURSIVE TrimEnd(_)
TrimEnd(s) ==
    IF s # <<>> /\ s[Len(s)] = SP THEN TrimEnd(SubSeq(s, 1, Len(s) - 1)) ELSE s

\* String.prototype.trim
trim(s) == TrimEnd(TrimStart(s))

\* an awaited call resolves with a value or rejects with a thrown value
Resolve(v) == [kind |-> "resolve", value |-> v]
Reject(isError, message) == [kind |-> "reject", isError |-> isError, message |-> message]

\* what uploadFiles may settle with
UploadOutcomes ==
    { Resolve(Obj(<< <<"success", Bool(TRUE)>>,
                     <<"asset_ids", Arr(<<Str(<<"asset-1">>), Str(<<"asset-2">>)>>)>> >>)),
      Resolve(Obj(<< <<"success", Bool(TRUE)>>, <<"asset_ids", Arr(<<>>)>> >>)),
      Resolve(Obj(<< <<"success", Bool(TRUE)>> >>)),
      Resolve(Obj(<< <<"success", Bool(FALSE)>>, <<"error", Str(<<"Upload quota exceeded">>)>> >>)),
      Resolve(Obj(<< <<"success", Bool(FALSE)>>, <<"error", Str(<<>>)>> >>)),
      Resolve(Obj(<< <<"success", Bool(FALSE)>>,
                     <<"asset_ids", Arr(<<Str(<<"asset-1">>)>>)>> >>)),
      Reject(TRUE, Str(<<"Network error">>)),
      Reject(TRUE, Str(<<>>)),
      Reject(FALSE, Str(<<"timeout">>)) }

\* what callAIAgent may settle with
AgentOutcomes ==
    { Resolve(Envelope(
          "module_outputs.artifact_files" :>
              Arr(<<Obj(<< <<"file_url", Str(<<"https://", "cdn/out", ".png">>)>> >>)>>)
          @@ "response.message" :> Str(<<"done">>))),
      Resolve(Envelope(
          "module_outputs.artifact_files" :>
              Arr(<<Obj(<< <<"file_url", Str(<<"https://", "cdn/out", ".png">>)>> >>)>>)
          @@ "response.result" :> Obj(<<>>))),
      Resolve(Envelope(
          "module_outputs.artifact_files" :>
              Arr(<<Obj(<< <<"file_url", Str(<<"https://", "cdn/out", ".png">>)>> >>)>>)
          @@ "result.styles" :> Str(<<"a, b">>))),
      Resolve(Envelope("module_outputs.artifact_files" :> Arr(<<JNull>>))),
      Resolve(Envelope("module_outputs.artifact_files" :> Arr(<<Obj(<<>>)>>))),
      Resolve(Envelope("module_outputs.artifact_files" :> Arr(<<Obj(<<>>)>>)
                       @@ "result.image_url" :> U("result.image_url"))),
      Resolve(Envelope("result.image_url" :> U("result.image_url"))),
      Resolve(Envelope(
          "response.message" :> Str(<<"see", SP, "https://", "x.com/a", ".png", SP, "here">>))),
      Resolve(Envelope("response.message" :> Str(<<"done">>))),
      Resolve(Envelope(<<>>)),
      Resolve(Envelope(
          "result.artifact_files" :> Arr(<<Obj(<<>>)>>)
          @@ "response.message" :> Str(<<"https://", "x.com/a", ".png", ".txt">>))),
      Resolve(Envelope("success" :> Bool(FALSE) @@ "error" :> Str(<<"Agent failed">>))),
      Resolve(Envelope("success" :> Bool(FALSE) @@ "response.message" :> Str(<<"done">>))),
      Resolve(Envelope("success" :> Bool(FALSE)
                       @@ "module_outputs.url" :> U("module_outputs.url"))),
      Reject(TRUE, Str(<<"Network error">>)),
      Reject(TRUE, Str(<<>>)),
      Reject(FALSE, Str(<<"timeout">>)) }

\* String(v), the message of new Error(v)
ToStr(v) ==
    CASE v.t = "string" -> v
      [] v.t = "object" -> Str(<<"[object Object]">>)
      [] v.t = "undefined" -> Str(<<>>)
      [] OTHER -> Str(stringify(v))

INSTRUCTION ==
    "Transform this uploaded image into Lyzr brand style using the company color palette (deep purples #7458e8, vibrant blues, electric accents) with clean gradients and modern tech-forward aesthetic."

\* the note appended whenever it is not '', and untrimmed
buildMessage_Untrimmed(note) ==
    IF note.s # <<>>
    THEN Str(<<INSTRUCTION, " Additional style direction: ">> \o note.s)
    ELSE Str(<<INSTRUCTION>>)

\* the message handleTransform builds from the style note
buildMessage(note) ==
    IF trim(note.s) # <<>>
    THEN Str(<<INSTRUCTION, " Additional style direction: ">> \o trim(note.s))
    ELSE Str(<<INSTRUCTION>>)

-----------------------------------------------------------------------------
(* The page: handlers *)

\* Page(): the state after the first render
PageInit ==
    /\ selectedFile = JNull
    /\ previewUrl = JNull
    /\ styleNote = Str(<<>>)
    /\ isTransforming = FALSE
    /\ resultImageUrl = JNull
    /\ transformationDetails = JNull
    /\ error = JNull
    /\ showComparison = FALSE
    /\ statusMessage = JNull
    /\ useSampleData = FALSE
    /\ runs = <<>>
    /\ lastOp = [op |-> "render"]

\* the dropzone (and through it the file input) is rendered
DropzoneShown == selectedFile = JNull /\ ~useSampleData

\* the remove button is rendered
RemoveShown == ~DropzoneShown /\ ~useSampleData

\* the button disabled only for want of a file
TransformDisabled_IgnoresBusy == selectedFile = JNull /\ ~useSampleData

\* disabled={(!selectedFile && !useSampleData) || isTransforming}
TransformDisabled == (selectedFile = JNull /\ ~useSampleData) \/ isTransforming

\* {error && ( ... Try Again ... )}
ErrorBoxShown == Truthy(error)

\* hasResult && (useSampleData || previewUrl)
showComparisonToggle ==
    (useSampleData \/ resultImageUrl # JNull) /\ (useSampleData \/ Truthy(previewUrl))

\* a selection or removal makes every suspended invocation one of an earlier session
Outdated(rs) == [i \in DOMAIN rs |-> [rs[i] EXCEPT !.stale = TRUE]]

\* something of an earlier session is on display
Dirty == Truthy(resultImageUrl) \/ Truthy(transformationDetails) \/ Truthy(error) \/ showComparison

\* handleFileSelect clearing the session before it validates the type
handleFileSelect_ClearsFirst(file) ==
    /\ DropzoneShown
    /\ IF file.type \notin ACCEPTED_FORMATS
       THEN /\ error' = Str(<<"Please upload a PNG, JPG, or WEBP image.">>)
            /\ resultImageUrl' = JNull
            /\ transformationDetails' = JNull
            /\ showComparison' = FALSE
            /\ lastOp' = [op |-> "handleFileSelect", accepted |-> FALSE, dirty |-> Dirty,
                          busy |-> isTransforming]
            /\ UNCHANGED <<selectedFile, previewUrl, runs>>
       ELSE /\ selectedFile' = file
            /\ previewUrl' = createObjectURL(file)
            /\ error' = JNull
            /\ resultImageUrl' = JNull
            /\ transformationDetails' = JNull
            /\ showComparison' = FALSE
            /\ runs' = Outdated(runs)
            /\ lastOp' = [op |-> "handleFileSelect", accepted |-> TRUE, dirty |-> Dirty,
                          busy |-> isTransforming]
    /\ UNCHANGED <<styleNote, isTransforming, statusMessage, useSampleData, extractVars>>

\* handleDrop / handleInputChange with files[0] = file
handleFileSelect(file) ==
    /\ DropzoneShown
    /\ IF file.type \notin ACCEPTED_FORMATS
       THEN /\ error' = Str(<<"Please upload a PNG, JPG, or WEBP image.">>)
            /\ lastOp' = [op |-> "handleFileSelect", accepted |-> FALSE, dirty |-> Dirty,
                          busy |-> isTransforming]
            /\ UNCHANGED <<selectedFile, previewUrl, resultImageUrl, transformationDetails,
                           showComparison, runs>>
       ELSE /\ selectedFile' = file
            /\ previewUrl' = createObjectURL(file)
            /\ error' = JNull
            /\ resultImageUrl' = JNull
            /\ transformationDetails' = JNull
            /\ showComparison' = FALSE
            /\ runs' = Outdated(runs)
            /\ lastOp' = [op |-> "handleFileSelect", accepted |-> TRUE, dirty |-> Dirty,
                          busy |-> isTransforming]
    /\ UNCHANGED <<styleNote, isTransforming, statusMessage, useSampleData, extractVars>>

\* handleRemoveFile without setError(null)
handleRemoveFile_KeepsError ==
    /\ RemoveShown
    /\ selectedFile' = JNull
    /\ previewUrl' = JNull
    /\ resultImageUrl' = JNull
    /\ transformationDetails' = JNull
    /\ showComparison' = FALSE
    /\ runs' = Outdated(runs)
    /\ lastOp' = [op |-> "handleRemoveFile", dirty |-> Dirty, busy |-> isTransforming]
    /\ UNCHANGED <<error, styleNote, isTransforming, statusMessage, useSampleData, extractVars>>

\* handleRemoveFile without setTransformationDetails(null)
handleRemoveFile_KeepsDetails ==
    /\ RemoveShown
    /\ selectedFile' = JNull
    /\ previewUrl' = JNull
    /\ resultImageUrl' = JNull
    /\ error' = JNull
    /\ showComparison' = FALSE
    /\ runs' = Outdated(runs)
    /\ lastOp' = [op |-> "handleRemoveFile", dirty |-> Dirty, busy |-> isTransforming]
    /\ UNCHANGED <<transformationDetails, styleNote, isTransforming, statusMessage,
                   useSampleData, extractVars>>

handleRemoveFile ==
    /\ RemoveShown
    /\ selectedFile' = JNull
    /\ previewUrl' = JNull
    /\ resultImageUrl' = JNull
    /\ transformationDetails' = JNull
    /\ error' = JNull
    /\ showComparison' = FALSE
    /\ runs' = Outdated(runs)
    /\ lastOp' = [op |-> "handleRemoveFile", dirty |-> Dirty, busy |-> isTransforming]
    /\ UNCHANGED <<styleNote, isTransforming, statusMessage, useSampleData, extractVars>>

\* Switch onCheckedChange={setUseSampleData}
setUseSampleData ==
    /\ useSampleData' = ~useSampleData
    /\ lastOp' = [op |-> "setUseSampleData"]
    /\ UNCHANGED <<selectedFile, previewUrl, styleNote, isTransforming, resultImageUrl,
                   transformationDetails, error, showComparison, statusMessage, runs,
                   extractVars>>

\* Switch onCheckedChange={setShowComparison}
setShowComparison ==
    /\ showComparisonToggle
    /\ showComparison' = ~showComparison
    /\ lastOp' = [op |-> "setShowComparison"]
    /\ UNCHANGED <<selectedFile, previewUrl, styleNote, isTransforming, resultImageUrl,
                   transformationDetails, error, statusMessage, useSampleData, runs,
                   extractVars>>

\* Input onChange={(e) => setStyleNote(e.target.value)}
setStyleNote(note) ==
    /\ note # styleNote
    /\ styleNote' = note
    /\ lastOp' = [op |-> "setStyleNote"]
    /\ UNCHANGED <<selectedFile, previewUrl, isTransforming, resultImageUrl,
                   transformationDetails, error, showComparison, statusMessage,
                   useSampleData, runs, extractVars>>

\* an invocation that forgets the style note
NewRun_WithoutNote ==
    [pc |-> "uploadFiles", file |-> selectedFile, styleNote |-> Str(<<>>),
     uploadResult |-> Undef, message |-> Undef, assets |-> <<>>, agentCalls |-> 0,
     stale |-> FALSE]

\* a handleTransform invocation suspended at uploadFiles
NewRun ==
    [pc |-> "uploadFiles", file |-> selectedFile, styleNote |-> styleNote,
     uploadResult |-> Undef, message |-> Undef, assets |-> <<>>, agentCalls |-> 0,
     stale |-> FALSE]

\* handleTransform without `if (!selectedFile) return`
handleTransform_NoGuard(button, errorNow) ==
    /\ Len(runs) < MaxInFlight
    /\ isTransforming' = TRUE
    /\ error' = JNull
    /\ resultImageUrl' = JNull
    /\ transformationDetails' = JNull
    /\ statusMessage' = Str(<<"Uploading image...">>)
    /\ runs' = Append(runs, NewRun)
    /\ lastOp' = [op |-> button, started |-> TRUE, busy |-> isTransforming,
                          shown |-> error]
    /\ UNCHANGED <<selectedFile, previewUrl, styleNote, showComparison, useSampleData,
                   extractVars>>

\* handleTransform up to its first await; errorNow is the error state it is
\* called with (Try Again clears it first)
handleTransform(button, errorNow) ==
    /\ IF selectedFile = JNull
       THEN /\ error' = errorNow
            /\ lastOp' = [op |-> button, started |-> FALSE, busy |-> isTransforming,
                          shown |-> error]
            /\ UNCHANGED <<isTransforming, resultImageUrl, transformationDetails,
                           statusMessage, runs>>
       ELSE /\ Len(runs) < MaxInFlight
            /\ isTransforming' = TRUE
            /\ error' = JNull
            /\ resultImageUrl' = JNull
            /\ transformationDetails' = JNull
            /\ statusMessage' = Str(<<"Uploading image...">>)
            /\ runs' = Append(runs, NewRun)
            /\ lastOp' = [op |-> button, started |-> TRUE, busy |-> isTransforming,
                          shown |-> error]
    /\ UNCHANGED <<selectedFile, previewUrl, styleNote, showComparison, useSampleData,
                   extractVars>>

\* Button onClick={handleTransform}
ClickTransform ==
    /\ ~TransformDisabled
    /\ handleTransform("Transform", error)

\* onClick={() => { setError(null); handleTransform() }}
ClickTryAgain ==
    /\ ErrorBoxShown
    /\ handleTransform("Try Again", JNull)

RemoveAt(seq, i) == SubSeq(seq, 1, i - 1) \o SubSeq(seq, i + 1, Len(seq))

\* the catch block without the finally block
Catch_WithoutFinally(i, op, outcome, errorMessage) ==
    /\ error' = errorMessage
    /\ statusMessage' = JNull
    /\ runs' = RemoveAt(runs, i)
    /\ lastOp' = [op |-> op, run |-> runs[i], outcome |-> outcome, ended |-> TRUE,
                  extracted |-> FALSE, phase |-> "Failed"]
    /\ UNCHANGED <<isTransforming, resultImageUrl, transformationDetails>>

\* catch (err) { setError(...); setStatusMessage(null) } finally { setIsTransforming(false) }
Catch(i, op, outcome, errorMessage) ==
    /\ error' = errorMessage
    /\ statusMessage' = JNull
    /\ isTransforming' = FALSE
    /\ runs' = RemoveAt(runs, i)
    /\ lastOp' = [op |-> op, run |-> runs[i], outcome |-> outcome, ended |-> TRUE,
                  extracted |-> FALSE, phase |-> "Failed"]
    /\ UNCHANGED <<resultImageUrl, transformationDetails>>

\* the message of whatever was thrown
CaughtMessage_OfAnything(outcome) == outcome.message

\* err instanceof Error ? err.message : 'Something went wrong. Please try again.'
CaughtMessage(outcome) ==
    IF outcome.isError THEN outcome.message
    ELSE Str(<<"Something went wrong. Please try again.">>)

\* the test without the length check
UploadUsable_NoLengthCheck(uploadResult) ==
    /\ Truthy(Get(uploadResult, "success"))
    /\ IsArray(Get(uploadResult, "asset_ids"))

\* uploadResult.success && Array.isArray(uploadResult.asset_ids) && asset_ids.length > 0
UploadUsable(uploadResult) ==
    /\ Truthy(Get(uploadResult, "success"))
    /\ IsArray(Get(uploadResult, "asset_ids"))
    /\ Len(Get(uploadResult, "asset_ids").a) # 0

\* the last identifier instead of the first
assetId_Last(uploadResult) ==
    LET ids == Get(uploadResult, "asset_ids")
    IN  IF NonEmptyArray(ids) THEN ids.a[Len(ids.a)] ELSE Undef

\* uploadResult.asset_ids[0]
assetId(uploadResult) ==
    LET ids == Get(uploadResult, "asset_ids")
    IN  IF NonEmptyArray(ids) THEN ids.a[1] ELSE Undef

\* handleTransform from the settling of uploadFiles to the call of callAIAgent
UploadSettled(i, outcome) ==
    /\ runs[i].pc = "uploadFiles"
    /\ IF outcome.kind = "reject"
       THEN Catch(i, "uploadFiles settled", outcome, CaughtMessage(outcome))
       ELSE IF ~UploadUsable(outcome.value)
       THEN Catch(i, "uploadFiles settled", outcome,
                  ToStr(Or(Get(outcome.value, "error"), Str(<<"Failed to upload image">>))))
       ELSE /\ statusMessage' = Str(<<"Transforming with AI...">>)
            /\ runs' = [runs EXCEPT ![i] =
                          [@ EXCEPT !.pc = "callAIAgent",
                                    !.uploadResult = outcome.value,
                                    !.message = buildMessage(runs[i].styleNote),
                                    !.assets = <<assetId(outcome.value)>>,
                                    !.agentCalls = @ + 1]]
            /\ lastOp' = [op |-> "uploadFiles settled", run |-> runs'[i], outcome |-> outcome,
                          ended |-> FALSE, extracted |-> FALSE, phase |-> "Invoking"]
            /\ UNCHANGED <<isTransforming, resultImageUrl, transformationDetails, error>>
    /\ UNCHANGED <<selectedFile, previewUrl, styleNote, showComparison, useSampleData,
                   extractVars>>

\* handleTransform from the settling of callAIAgent to its end
AgentSettled(i, outcome) ==
    /\ runs[i].pc = "callAIAgent"
    /\ IF outcome.kind = "reject"
       THEN Catch(i, "callAIAgent settled", outcome, CaughtMessage(outcome))
       ELSE IF ~Truthy(Get(outcome.value, "success"))
       THEN Catch(i, "callAIAgent settled", outcome,
                  ToStr(Or(Get(outcome.value, "error"),
                           Or(Get(Get(outcome.value, "response"), "message"),
                              Str(<<"Transformation failed">>)))))
       ELSE IF ~Truthy(extractImageUrl(outcome.value))
       THEN /\ error' = Str(<<"No image was generated. Please try again.">>)
            /\ statusMessage' = JNull
            /\ isTransforming' = FALSE
            /\ runs' = RemoveAt(runs, i)
            /\ lastOp' = [op |-> "callAIAgent settled", run |-> runs[i], outcome |-> outcome,
                          ended |-> TRUE, extracted |-> TRUE, phase |-> "Failed"]
            /\ UNCHANGED <<resultImageUrl, transformationDetails>>
       ELSE /\ resultImageUrl' = extractImageUrl(outcome.value)
            /\ transformationDetails' =
                  IF Truthy(extractTransformationDetails(outcome.value))
                  THEN extractTransformationDetails(outcome.value)
                  ELSE transformationDetails
            /\ statusMessage' = JNull
            /\ isTransforming' = FALSE
            /\ runs' = RemoveAt(runs, i)
            /\ lastOp' = [op |-> "callAIAgent settled", run |-> runs[i], outcome |-> outcome,
                          ended |-> TRUE, extracted |-> TRUE, phase |-> "Succeeded"]
            /\ UNCHANGED error
    /\ UNCHANGED <<selectedFile, previewUrl, styleNote, showComparison, useSampleData,
                   extractVars>>

\* src/app/page.tsx, Step 5: the record set from the three keys of response.result
AppDetails(agentResult) ==
    Details(Or(Get(agentResult, "transformation_description"), Str(<<>>)),
            Or(Get(agentResult, "style_elements_applied"), Str(<<>>)),
            Or(Get(agentResult, "color_palette_used"), Str(<<>>)))

\* src/app/page.tsx: handleTransform from the settling of callAIAgent to its end
AgentSettledApp(i, outcome) ==
    /\ runs[i].pc = "callAIAgent"
    /\ IF outcome.kind = "reject"
       THEN Catch(i, "callAIAgent settled", outcome, CaughtMessage(outcome))
       ELSE IF ~Truthy(Get(outcome.value, "success"))
       THEN Catch(i, "callAIAgent settled", outcome,
                  ToStr(Or(Get(outcome.value, "error"),
                           Or(Get(Get(outcome.value, "response"), "message"),
                              Str(<<"Transformation failed">>)))))
       ELSE LET artifactFiles == Get(Get(outcome.value, "module_outputs"), "artifact_files")
                agentResult == Get(Get(outcome.value, "response"), "result")
                Throw(errorMessage) ==
                    /\ error' = errorMessage
                    /\ statusMessage' = JNull
                    /\ isTransforming' = FALSE
                    /\ runs' = RemoveAt(runs, i)
                    /\ lastOp' = [op |-> "callAIAgent settled", run |-> runs[i],
                                  outcome |-> outcome, ended |-> TRUE, extracted |-> TRUE,
                                  phase |-> "Failed"]
                    /\ UNCHANGED <<resultImageUrl, transformationDetails>>
            IN  IF ~NonEmptyArray(artifactFiles)
                THEN Throw(Str(<<"No image was generated. Please try again.">>))
                ELSE IF Elem0(artifactFiles) \in {JNull, Undef}
                THEN \* artifactFiles[0].file_url throws a TypeError
                     Throw(Str(<<"Cannot read properties of null (reading 'file_url')">>))
                ELSE /\ resultImageUrl' = Get(Elem0(artifactFiles), "file_url")
                     /\ transformationDetails' =
                           IF Truthy(agentResult) /\ TypeofObject(agentResult)
                           THEN AppDetails(agentResult)
                           ELSE transformationDetails
                     /\ statusMessage' = JNull
                     /\ isTransforming' = FALSE
                     /\ runs' = RemoveAt(runs, i)
                     /\ lastOp' = [op |-> "callAIAgent settled", run |-> runs[i],
                                   outcome |-> outcome, ended |-> TRUE, extracted |-> TRUE,
                                   phase |-> "Succeeded"]
                     /\ UNCHANGED error
    /\ UNCHANGED <<selectedFile, previewUrl, styleNote, showComparison, useSampleData,
                   extractVars>>

Init ==
    /\ PageInit
    /\ envelope = Undef
    /\ imageUrl = NotCalled
    /\ calls = 0
    /\ previous = NotCalled
    /\ details = NotCalled

Next ==
    \/ \E file \in Files : handleFileSelect(file)
    \/ handleRemoveFile
    \/ setUseSampleData
    \/ setShowComparison
    \/ \E note \in StyleNotes : setStyleNote(note)
    \/ ClickTransform
    \/ ClickTryAgain
    \/ \E i \in DOMAIN runs : \E outcome \in UploadOutcomes : UploadSettled(i, outcome)
    \/ \E i \in DOMAIN runs : \E outcome \in AgentOutcomes : AgentSettled(i, outcome)

Spec == Init /\ [][Next]_vars

\* every awaited collaborator call eventually resolves or rejects
CollaboratorsSettle ==
    \A i \in 1..MaxInFlight :
        /\ WF_vars(\E outcome \in UploadOutcomes :
                      i \in DOMAIN runs /\ UploadSettled(i, outcome))
        /\ WF_vars(\E outcome \in AgentOutcomes :
                      i \in DOMAIN runs /\ AgentSettled(i, outcome))

SpecLive == Init /\ [][Next]_vars /\ CollaboratorsSettle

\* the page of src/app/page.tsx: the same handlers, its own handleTransform
NextApp ==
    \/ \E file \in Files : handleFileSelect(file)
    \/ handleRemoveFile
    \/ setUseSampleData
    \/ setShowComparison
    \/ \E note \in StyleNotes : setStyleNote(note)
    \/ ClickTransform
    \/ ClickTryAgain
    \/ \E i \in DOMAIN runs : \E outcome \in UploadOutcomes : UploadSettled(i, outcome)
    \/ \E i \in DOMAIN runs : \E outcome \in AgentOutcomes : AgentSettledApp(i, outcome)

SpecApp == Init /\ [][NextApp]_vars

-----------------------------------------------------------------------------
(* The extractor run on its own *)

ExtractInit ==
    /\ PageInit
    /\ \E S \in PlaceSets : \E pick \in [S -> 1..MaxChoices] :
          /\ \A place \in S : pick[place] <= Len(Choices(place))
          /\ envelope = Envelope([place \in S |-> Choices(place)[pick[place]]])
    /\ imageUrl = NotCalled
    /\ calls = 0
    /\ previous = NotCalled
    /\ details = NotCalled

\* the extractor is called at most this many times on one envelope
MaxCalls == 2

\* const imageUrl = extractImageUrl(result)
CallExtractImageUrl ==
    /\ calls < MaxCalls
    /\ imageUrl' = extractImageUrl(envelope)
    /\ calls' = calls + 1
    /\ previous' = [envelope |-> envelope, imageUrl |-> imageUrl]
    /\ UNCHANGED <<envelope, details, pageVars>>

ExtractNext == CallExtractImageUrl

SpecExtract == ExtractInit /\ [][ExtractNext]_vars

-----------------------------------------------------------------------------
(* extractTransformationDetails run on its own *)

\* the keys of response.result read for each field, in the order of the code
DescKeys == <<"transformation_description", "description", "text", "message">>
StyleKeys == <<"style_elements_applied", "styles", "elements">>
ColorKeys == <<"color_palette_used", "colors", "palette">>

\* the place of each key under response.result
DetailPlace ==
    [ transformation_description |-> "result.transformation_description",
      description |-> "result.description",
      text |-> "result.text",
      message |-> "result.message",
      style_elements_applied |-> "result.style_elements_applied",
      styles |-> "result.styles",
      elements |-> "result.elements",
      color_palette_used |-> "result.color_palette_used",
      colors |-> "result.colors",
      palette |-> "result.palette" ]

DetailLeafPlaces == {DetailPlace[k] : k \in DOMAIN DetailPlace}

DetailPlaces == DetailLeafPlaces \cup {"response.result", "response.message"}

\* a text, the empty string, numbers, false, null, a sequence, a mapping
DetailChoices(place) ==
    CASE place \in DetailLeafPlaces ->
            << IF place = "result.styles" THEN Str(<<"a, b">>) ELSE Str(<<place>>),
               Str(<<>>), Num(7), Num(0), Bool(FALSE), JNull,
               Arr(<<Str(<<"a">>)>>), Obj(<<>>) >>
      [] place = "response.result" ->
            <<JNull, Str(<<"none">>), Obj(<<>>), Arr(<<>>), Num(7)>>
      [] OTHER ->
            <<Str(<<"done">>), Str(<<>>), Num(7), JNull, Obj(<<>>), Bool(TRUE)>>

DetailPlaceSets == {S \in SUBSET DetailPlaces : Cardinality(S) <= MaxPopulated}

MaxDetailChoices == Max({Len(DetailChoices(place)) : place \in DetailPlaces})

DetailsInit ==
    /\ PageInit
    /\ \E S \in DetailPlaceSets : \E pick \in [S -> 1..MaxDetailChoices] :
          /\ \A place \in S : pick[place] <= Len(DetailChoices(place))
          /\ envelope = Envelope([place \in S |-> DetailChoices(place)[pick[place]]])
    /\ imageUrl = NotCalled
    /\ calls = 0
    /\ previous = NotCalled
    /\ details = NotCalled

\* const details = extractTransformationDetails(result)
CallExtractTransformationDetails ==
    /\ calls = 0
    /\ details' = extractTransformationDetails(envelope)
    /\ calls' = calls + 1
    /\ UNCHANGED <<envelope, imageUrl, previous, pageVars>>

DetailsNext == CallExtractTransformationDetails

SpecDetails == DetailsInit /\ [][DetailsNext]_vars

-----------------------------------------------------------------------------
(* Properties of extractImageUrl (SpecExtract) *)

\* x.artifact_files[0].file_url, undefined where the path does not lead
FirstFileUrl(holder) ==
    LET files == Get(holder, "artifact_files")
    IN  IF NonEmptyArray(files) THEN Get(Elem0(files), "file_url") ELSE Undef

\* the envelope exposes module_outputs.artifact_files[0].file_url, non-empty
ExposesTopFileUrl(env) == Truthy(FirstFileUrl(Get(env, "module_outputs")))

\* C1: whenever the top-level module_outputs.artifact_files is a non-empty
\* sequence whose element 0 carries a non-empty file_url, extractImageUrl
\* returns exactly that file_url, whatever else the envelope holds.
C1_TopFileUrlWins ==
    (calls = 1 /\ ExposesTopFileUrl(envelope))
        => imageUrl = FirstFileUrl(Get(envelope, "module_outputs"))

\* the extractor has returned the top-level file_url of an envelope in which a
\* lower-priority place (module_outputs.url, response.result, the message)
\* holds a value too
C1_Witness ==
    /\ calls = 1
    /\ ExposesTopFileUrl(envelope)
    /\ \/ Truthy(Get(Get(envelope, "module_outputs"), "url"))
       \/ Truthy(Get(Get(Get(envelope, "response"), "result"), "image_url"))
       \/ Path4(envelope).ret
    /\ imageUrl = Str(<<"module_outputs.artifact_files", ".file_url">>)

\* the strategies as the specification numbers them; undefined is "yields nothing"
Strategy1(env) ==
    LET v == FirstFileUrl(Get(env, "module_outputs")) IN IF Truthy(v) THEN v ELSE Undef

\* element 0 of a non-empty sequence, undefined otherwise
First(v) == IF NonEmptyArray(v) THEN Elem0(v) ELSE Undef

Strategy2(env) ==
    LET mo == Get(env, "module_outputs")
        vals == Values(mo)
        Carries(i) == Truthy(Get(First(vals[i]), "file_url")) \/ Truthy(Get(First(vals[i]), "url"))
        keys == {i \in DOMAIN vals : Carries(i)}
    IN  IF Truthy(Get(mo, "url")) THEN Get(mo, "url")
        ELSE IF Truthy(Get(mo, "image_url")) THEN Get(mo, "image_url")
        ELSE IF keys # {}
             THEN Or(Get(First(vals[Min(keys)]), "file_url"), Get(First(vals[Min(keys)]), "url"))
        ELSE Undef

Strategy3(env) ==
    LET r == Get(Get(env, "response"), "result")
        direct == {i \in DOMAIN ResultKeys : Truthy(Get(r, ResultKeys[i]))}
        file == First(Get(r, "artifact_files"))
    IN  IF direct # {} THEN Get(r, ResultKeys[Min(direct)])
        ELSE IF Truthy(Get(file, "file_url")) THEN Get(file, "file_url")
        ELSE IF Truthy(Get(file, "url")) THEN Get(file, "url")
        ELSE Strategy1(r)

Strategy4(env) == IF Path4(env).ret THEN Path4(env).val ELSE Undef

Strategy5(env) == IF Path5(env).ret THEN Path5(env).val ELSE Undef

\* the value of the lowest-numbered strategy that yields one, null when none does
FirstYield(env) ==
    LET yields == <<Strategy1(env), Strategy2(env), Strategy3(env), Strategy4(env), Strategy5(env)>>
        some == {i \in DOMAIN yields : yields[i] # Undef}
    IN  IF some = {} THEN JNull ELSE yields[Min(some)]

\* C2: the result of extractImageUrl is the value of the lowest-numbered
\* strategy (1 to 5) that yields one; a later strategy's value is never
\* returned when an earlier one yields, and an earlier strategy that yields
\* nothing does not keep a later one from being consulted.
C2_FirstYieldingStrategy == calls = 1 => imageUrl = FirstYield(envelope)

\* the second sentence of C2 alone: module_outputs.artifact_files empty and
\* response.result.image_url = X give X
C2_EmptyArtifactsThenResult ==
    (/\ calls = 1
     /\ Get(Get(envelope, "module_outputs"), "artifact_files") = Arr(<<>>)
     /\ Truthy(Get(Get(Get(envelope, "response"), "result"), "image_url")))
        => imageUrl = Get(Get(Get(envelope, "response"), "result"), "image_url")

\* the values stored at the candidate places of strategies 1 to 3 and 5
Candidates(env) ==
    LET mo == Get(env, "module_outputs")
        r == Get(Get(env, "response"), "result")
        rawText == Get(env, "raw_response")
        raw == IF rawText.t = "string" THEN JSONParse(rawText.s) ELSE Undef
    IN  {FirstFileUrl(mo), Get(mo, "url"), Get(mo, "image_url")}
            \cup UNION {{Get(First(Values(mo)[i]), "file_url"), Get(First(Values(mo)[i]), "url")}
                          : i \in DOMAIN Values(mo)}
            \cup {Get(r, ResultKeys[i]) : i \in DOMAIN ResultKeys}
            \cup {Get(First(Get(r, "artifact_files")), "file_url"),
                  Get(First(Get(r, "artifact_files")), "url"),
                  FirstFileUrl(Get(r, "module_outputs")),
                  FirstFileUrl(Get(raw, "module_outputs")),
                  FirstFileUrl(Get(Get(raw, "response"), "module_outputs"))}

\* the pieces of a text that the URL pattern matches: a scheme, at least one
\* allowed character, an extension
UrlsIn(v, exts, excluded) ==
    IF v.t # "string" THEN {}
    ELSE UNION {{Str(SubSeq(v.s, i, j)) : j \in {k \in (i + 2)..Len(v.s) :
                                                    /\ Lower(v.s[k]) \in exts
                                                    /\ \A m \in (i + 1)..k : v.s[m] \notin excluded}}
                  : i \in {k \in DOMAIN v.s : Lower(v.s[k]) \in Schemes}}

MatchedUrls(env) ==
    UrlsIn(Get(Get(env, "response"), "message"), MessageExts, MessageExcluded)
        \cup UrlsIn(Get(env, "raw_response"), RawExts, RawExcluded)

\* C10: a non-null result of extractImageUrl is a value stored at a candidate
\* place of the envelope, or a piece of response.message or raw_response that
\* the URL pattern matches; it is never the empty string; and an envelope with
\* nothing recognizable at any candidate place gives null.
C10_NeverFabricated ==
    calls = 1 =>
        /\ imageUrl # JNull =>
              /\ imageUrl # Str(<<>>)
              /\ imageUrl # Undef
              /\ imageUrl \in Candidates(envelope) \cup MatchedUrls(envelope)
        /\ ((\A v \in Candidates(envelope) : ~Truthy(v)) /\ MatchedUrls(envelope) = {})
              => imageUrl = JNull

\* the extractor has returned a URL cut out of a longer message
C10_Witness ==
    /\ calls = 1
    /\ imageUrl # JNull
    /\ imageUrl \notin Candidates(envelope)
    /\ imageUrl \in MatchedUrls(envelope)
    /\ imageUrl # Get(Get(envelope, "response"), "message")

\* C11: for every envelope, with values of any JSON type at the candidate
\* places, extractImageUrl returns null or a string, never a number, a
\* boolean, a mapping or a sequence.
C11_StringOrNull == calls >= 1 => (imageUrl = JNull \/ imageUrl.t = "string")

\* C11 for the envelopes whose candidate values are strings: the result is
\* null or a string
C11_StringsGiveString ==
    (calls >= 1 /\ \A v \in Candidates(envelope) : v.t \in {"string", "undefined", "null"})
        => (imageUrl = JNull \/ imageUrl.t = "string")

\* strategies 1 to 3 yield nothing for the envelope and strategy 4 or 5 yields
\* a value
OnlyLateStrategiesYield(env) ==
    /\ Strategy1(env) = Undef
    /\ Strategy2(env) = Undef
    /\ Strategy3(env) = Undef
    /\ (Strategy4(env) # Undef \/ Strategy5(env) # Undef)

\* C12: extractImageUrl returns null only when none of the strategies 1 to 5
\* yields a value: when strategies 1 to 3 yield nothing and response.message
\* holds a matching URL or raw_response a location of strategy 5, the result
\* is the value of strategy 4, else of strategy 5, and not null.
C12_NullOnlyWhenNothingYields ==
    (calls >= 1 /\ OnlyLateStrategiesYield(envelope)) =>
        /\ imageUrl # JNull
        /\ imageUrl = IF Strategy4(envelope) # Undef
                      THEN Strategy4(envelope) ELSE Strategy5(envelope)

\* C12 for the envelopes in which response.result.artifact_files is not a
\* non-empty sequence
C12_WithoutResultArtifacts ==
    (/\ calls >= 1
     /\ OnlyLateStrategiesYield(envelope)
     /\ ~NonEmptyArray(Get(Get(Get(envelope, "response"), "result"), "artifact_files")))
        => imageUrl = IF Strategy4(envelope) # Undef
                      THEN Strategy4(envelope) ELSE Strategy5(envelope)

\* the envelope holds response.message, a string, and no other candidate place
OnlyMessage(env) ==
    /\ Get(Get(env, "response"), "message").t = "string"
    /\ env = Envelope("response.message" :> Get(Get(env, "response"), "message"))

\* positions <<i, j>> of the pieces of a text that are HTTP(S) URLs ending in
\* one of the extensions
UrlSpans(text, exts, excluded) ==
    {span \in (DOMAIN text) \X (DOMAIN text) :
        /\ Lower(text[span[1]]) \in Schemes
        /\ span[2] >= span[1] + 2
        /\ Lower(text[span[2]]) \in exts
        /\ \A m \in (span[1] + 1)..span[2] : text[m] \notin excluded}

\* the first URL of a text: the one starting leftmost, taken to its last
\* extension
FirstUrl(text, exts, excluded) ==
    LET spans == UrlSpans(text, exts, excluded)
        i == Min({span[1] : span \in spans})
        j == Max({span[2] : span \in {x \in spans : x[1] = i}})
    IN  Str(SubSeq(text, i, j))

\* C13: for an envelope that holds only response.message, a string with at
\* least one HTTP(S) URL ending in png, jpg, jpeg, webp, gif, svg or bmp in
\* any letter case, extractImageUrl returns the first such URL without the
\* text around it; "see https://x.com/a.png here" gives "https://x.com/a.png".
C13_FirstUrlOfMessage ==
    LET message == Get(Get(envelope, "response"), "message")
    IN  (/\ calls >= 1
         /\ OnlyMessage(envelope)
         /\ UrlSpans(message.s, MessageExts, MessageExcluded) # {})
            => /\ imageUrl = FirstUrl(message.s, MessageExts, MessageExcluded)
               /\ message = Str(<<"see", SP, "https://", "x.com/a", ".png", SP, "here">>)
                     => imageUrl = Str(<<"https://", "x.com/a", ".png">>)

\* the URL has been cut out of the message "see https://x.com/a.png here"
C13_Witness ==
    /\ calls >= 1
    /\ envelope = Envelope("response.message" :>
                              Str(<<"see", SP, "https://", "x.com/a", ".png", SP, "here">>))
    /\ imageUrl = Str(<<"https://", "x.com/a", ".png">>)

\* of two URLs in a message the first has been returned
C13_WitnessFirstOfTwo ==
    /\ calls >= 1
    /\ envelope = Envelope("response.message" :>
                              Str(<<"http://", "a", ".jpg", SP, "https://", "b", ".gif">>))
    /\ imageUrl = Str(<<"http://", "a", ".jpg">>)

\* the text is the serialization of a JSON document
ParsesAsJson(text) == \E d \in JsonDocs : stringify(d) = text

\* what strategy 5 is to give for a raw_response string
FromRawResponse(text) ==
    IF ParsesAsJson(text)
    THEN LET raw == CHOOSE d \in JsonDocs : stringify(d) = text
             top == FirstFileUrl(Get(raw, "module_outputs"))
             nested == FirstFileUrl(Get(Get(raw, "response"), "module_outputs"))
         IN  IF Truthy(top) THEN top ELSE IF Truthy(nested) THEN nested ELSE JNull
    ELSE IF UrlSpans(text, RawExts, RawExcluded) # {}
         THEN FirstUrl(text, RawExts, RawExcluded)
         ELSE JNull

\* strategies 1 to 4 yield nothing for the envelope
NoEarlyStrategyYields(env) ==
    /\ Strategy1(env) = Undef
    /\ Strategy2(env) = Undef
    /\ Strategy3(env) = Undef
    /\ Strategy4(env) = Undef

\* C25: when strategies 1 to 4 yield no value and raw_response is a string:
\* if it parses as JSON the result is the parsed
\* module_outputs.artifact_files[0].file_url when present, else the parsed
\* response.module_outputs.artifact_files[0].file_url when present, else null,
\* and the URL pattern is not applied to the raw string; only if it does not
\* parse is the result the first URL of the raw string ending in png, jpg,
\* jpeg, webp or gif (svg and bmp do not match).
C25_RawResponse ==
    (/\ calls >= 1
     /\ NoEarlyStrategyYields(envelope)
     /\ Get(envelope, "raw_response").t = "string")
        => imageUrl = FromRawResponse(Get(envelope, "raw_response").s)

\* C25 for the envelopes in which response.result.artifact_files is not a
\* non-empty sequence
C25_WithoutResultArtifacts ==
    (/\ calls >= 1
     /\ NoEarlyStrategyYields(envelope)
     /\ Get(envelope, "raw_response").t = "string"
     /\ ~NonEmptyArray(Get(Get(Get(envelope, "response"), "result"), "artifact_files")))
        => imageUrl = FromRawResponse(Get(envelope, "raw_response").s)

-----------------------------------------------------------------------------
(* Properties of the transform workflow (Spec) *)

Settled == {"uploadFiles settled", "callAIAgent settled"}

\* the last step was the end of a run whose upload and agent call succeeded
\* and in whose envelope an image reference is found
SuccessfulRunEnded ==
    /\ lastOp.op = "callAIAgent settled"
    /\ lastOp.outcome.kind = "resolve"
    /\ Truthy(Get(lastOp.outcome.value, "success"))
    /\ Truthy(extractImageUrl(lastOp.outcome.value))

\* C3: a run whose upload succeeds with an asset identifier, whose agent call
\* succeeds and whose envelope holds an image reference ends in Succeeded:
\* isTransforming false, error null, resultImageUrl the extracted reference,
\* transformationDetails the extracted record when there is one.
C3_SuccessfulRunSucceeds ==
    SuccessfulRunEnded =>
        /\ ~isTransforming
        /\ error = JNull
        /\ resultImageUrl # JNull
        /\ resultImageUrl = extractImageUrl(lastOp.outcome.value)
        /\ extractTransformationDetails(lastOp.outcome.value) # JNull
              => transformationDetails = extractTransformationDetails(lastOp.outcome.value)

\* C3 without the error field
C3_ResultPublished ==
    SuccessfulRunEnded =>
        /\ ~isTransforming
        /\ resultImageUrl # JNull
        /\ resultImageUrl = extractImageUrl(lastOp.outcome.value)
        /\ extractTransformationDetails(lastOp.outcome.value) # JNull
              => transformationDetails = extractTransformationDetails(lastOp.outcome.value)

\* the last step was the settling of an upload with success true and asset_ids
\* empty or not a sequence
UploadWithoutAssets ==
    /\ lastOp.op = "uploadFiles settled"
    /\ lastOp.outcome.kind = "resolve"
    /\ Truthy(Get(lastOp.outcome.value, "success"))
    /\ ~NonEmptyArray(Get(lastOp.outcome.value, "asset_ids"))

\* C4: when the upload result has success true but asset_ids is empty or not
\* a sequence, the run ends in Failed (error non-null, isTransforming false)
\* and callAIAgent is never called during that run.
C4_NoAssetNoAgentCall ==
    UploadWithoutAssets =>
        /\ lastOp.ended
        /\ error # JNull
        /\ ~isTransforming
        /\ lastOp.run.agentCalls = 0
        /\ lastOp.run.pc = "uploadFiles"

\* an upload has settled with success true and an empty asset_ids
C4_Witness ==
    /\ UploadWithoutAssets
    /\ Get(lastOp.outcome.value, "asset_ids") = Arr(<<>>)
    /\ error = Str(<<"Failed to upload image">>)

\* C5: in every run the phases come in the order Uploading, Invoking,
\* Extracting: callAIAgent is started only after uploadFiles has settled with
\* a usable asset identifier, and receives exactly the first identifier; the
\* extraction runs only after callAIAgent has settled with success true.
C5_PhaseOrder ==
    /\ \A i \in DOMAIN runs :
          /\ runs[i].pc = "uploadFiles" => (runs[i].agentCalls = 0 /\ runs[i].uploadResult = Undef)
          /\ runs[i].pc = "callAIAgent" =>
                /\ runs[i].agentCalls = 1
                /\ Truthy(Get(runs[i].uploadResult, "success"))
                /\ NonEmptyArray(Get(runs[i].uploadResult, "asset_ids"))
                /\ runs[i].assets = <<Get(runs[i].uploadResult, "asset_ids").a[1]>>
    /\ (lastOp.op \in Settled /\ lastOp.extracted) =>
          /\ lastOp.op = "callAIAgent settled"
          /\ lastOp.run.pc = "callAIAgent"
          /\ lastOp.outcome.kind = "resolve"
          /\ Truthy(Get(lastOp.outcome.value, "success"))
    /\ (lastOp.op \in Settled /\ lastOp.phase = "Succeeded") => lastOp.extracted

\* callAIAgent is awaited with the first of two identifiers the upload returned
C5_Witness ==
    \E i \in DOMAIN runs :
        /\ runs[i].pc = "callAIAgent"
        /\ Len(Get(runs[i].uploadResult, "asset_ids").a) > 1
        /\ runs[i].assets = <<Str(<<"asset-1">>)>>

\* C6: when the file was removed or another one selected while a run was
\* suspended, the end of that run writes neither its result image, nor its
\* transformation details, nor its error message into the session state.
C6_StaleCompletionDiscarded ==
    [][(lastOp'.op \in Settled /\ lastOp'.ended /\ lastOp'.run.stale)
          => UNCHANGED <<resultImageUrl, transformationDetails, error>>]_vars

\* C7: at most one handleTransform run is between its start and its end, and
\* no run passes the selected-file guard while isTransforming is true.
C7_SingleRun ==
    /\ Len(runs) <= 1
    /\ (lastOp.op \in {"Transform", "Try Again"} /\ lastOp.started) => ~lastOp.busy

\* Try Again was clicked while a run was suspended, and started nothing
C7_Witness ==
    /\ lastOp.op = "Try Again"
    /\ lastOp.busy
    /\ ~lastOp.started
    /\ Len(runs) = 1

\* the last step was handleRemoveFile, or handleFileSelect with an accepted file
SelectionChanged ==
    \/ lastOp.op = "handleRemoveFile"
    \/ lastOp.op = "handleFileSelect" /\ lastOp.accepted

\* C8: right after handleRemoveFile, and right after handleFileSelect with a
\* file of an accepted type, resultImageUrl, transformationDetails and error
\* are null and showComparison is false, whatever the state was before.
C8_SelectionClearsSession ==
    SelectionChanged =>
        /\ resultImageUrl = JNull
        /\ transformationDetails = JNull
        /\ error = JNull
        /\ ~showComparison

\* a file was removed while a result, an error or the comparison was on display
C8_Witness ==
    /\ lastOp.op = "handleRemoveFile"
    /\ lastOp.dirty
    /\ resultImageUrl = JNull

\* C9: after the user selects a new file or removes the current one, also
\* while a run is suspended at a collaborator, the phase is Idle:
\* isTransforming is false and no progress message is exposed.
C9_SelectionReturnsToIdle ==
    SelectionChanged => (~isTransforming /\ statusMessage = JNull)

-----------------------------------------------------------------------------
(* Properties of extractTransformationDetails (SpecDetails) *)

\* a string, or nothing
IsTextOrNone(v) == v.t \in {"string", "undefined", "null"}

\* the candidate keys of response.result and response.message hold strings
\* where they hold anything
TextOnly(env) ==
    LET r == Get(Get(env, "response"), "result")
    IN  /\ \A k \in DOMAIN DetailPlace : IsTextOrNone(Get(r, k))
        /\ IsTextOrNone(Get(Get(env, "response"), "message"))

\* the first non-empty string among the values of keys in r, '' when there is none
FirstNonEmpty(r, keys) ==
    LET some == {i \in DOMAIN keys : Get(r, keys[i]).t = "string" /\ Get(r, keys[i]).s # <<>>}
    IN  IF some = {} THEN Str(<<>>) ELSE Get(r, keys[Min(some)])

\* the three fields derived from response.result
Derived(env) ==
    LET r == Get(Get(env, "response"), "result")
    IN  <<FirstNonEmpty(r, DescKeys), FirstNonEmpty(r, StyleKeys), FirstNonEmpty(r, ColorKeys)>>

\* response.result is a mapping and one of its derived fields is non-empty
MappingPathYields(env) ==
    /\ Get(Get(env, "response"), "result").t = "object"
    /\ \E i \in 1..3 : Derived(env)[i] # Str(<<>>)

\* C14: when response.result is a mapping with at least one non-empty derived
\* field, extractTransformationDetails returns the record of the first
\* non-empty candidate of each field (transformation_description, description,
\* text, message; style_elements_applied, styles, elements; color_palette_used,
\* colors, palette), '' where a field has none; { styles: "a, b" } gives
\* { "", "a, b", "" }.
C14_DetailsFromResult ==
    (calls = 1 /\ TextOnly(envelope) /\ MappingPathYields(envelope)) =>
        /\ details = Details(Derived(envelope)[1], Derived(envelope)[2], Derived(envelope)[3])
        /\ Get(Get(envelope, "response"), "result") = Obj(<< <<"styles", Str(<<"a, b">>)>> >>)
              => details = Details(Str(<<>>), Str(<<"a, b">>), Str(<<>>))

\* the details of response.result = { styles: "a, b" } have been extracted
C14_Witness ==
    /\ calls = 1
    /\ Get(Get(envelope, "response"), "result") = Obj(<< <<"styles", Str(<<"a, b">>)>> >>)
    /\ details = Details(Str(<<>>), Str(<<"a, b">>), Str(<<>>))

\* two candidates of one field are present and the earlier one has been taken
C14_WitnessOrder ==
    /\ calls = 1
    /\ TextOnly(envelope)
    /\ Get(Get(Get(envelope, "response"), "result"), "styles") = Str(<<"a, b">>)
    /\ Truthy(Get(Get(Get(envelope, "response"), "result"), "elements"))
    /\ details = Details(Str(<<>>), Str(<<"a, b">>), Str(<<>>))

\* C15: extractTransformationDetails returns null exactly when the mapping
\* path yields nothing (response.result is not a mapping or its three derived
\* fields are empty) and response.message is absent or empty; when the
\* mapping path yields nothing and response.message is present, it returns
\* { transformation_description: response.message, '', '' }.
C15_NullOrMessageFallback ==
    LET message == Get(Get(envelope, "response"), "message")
        present == message.t = "string" /\ message.s # <<>>
    IN  (calls = 1 /\ TextOnly(envelope)) =>
            /\ details = JNull <=> (~MappingPathYields(envelope) /\ ~present)
            /\ (~MappingPathYields(envelope) /\ present)
                  => details = Details(message, Str(<<>>), Str(<<>>))

\* the message has been taken for an envelope whose response.result is a
\* mapping with empty fields
C15_Witness ==
    /\ calls = 1
    /\ TextOnly(envelope)
    /\ Get(Get(envelope, "response"), "result").t = "object"
    /\ ~MappingPathYields(envelope)
    /\ details = Details(Str(<<"done">>), Str(<<>>), Str(<<>>))

\* null has been returned for an envelope with an empty message
C15_WitnessNull ==
    /\ calls = 1
    /\ Get(Get(envelope, "response"), "message") = Str(<<>>)
    /\ details = JNull

\* a record with exactly the three keys, each holding a string
IsDetailsRecord(v) ==
    /\ v.t = "object"
    /\ Len(v.o) = 3
    /\ {v.o[i][1] : i \in DOMAIN v.o}
          = {"transformation_description", "style_elements_applied", "color_palette_used"}
    /\ \A i \in DOMAIN v.o : v.o[i][2].t = "string"

\* C17: for every envelope, with values of any JSON type at the candidate
\* keys and at response.message, extractTransformationDetails returns null or
\* a record with the three keys transformation_description,
\* style_elements_applied and color_palette_used, each holding a string.
C17_ThreeStringFields == calls = 1 => (details = JNull \/ IsDetailsRecord(details))

\* C17 for the envelopes whose response.message is a string or absent
C17_WithTextMessage ==
    (calls = 1 /\ IsTextOrNone(Get(Get(envelope, "response"), "message")))
        => (details = JNull \/ IsDetailsRecord(details))

\* a record one of whose fields is not the empty string
HasNonEmptyField(v) == v.t = "object" /\ \E i \in DOMAIN v.o : Truthy(v.o[i][2])

\* C16: every TransformationDetails record that the extraction returns, and
\* every record the workflow publishes into transformationDetails, has at
\* least one non-empty field among transformation_description,
\* style_elements_applied and color_palette_used.
C16_NeverThreeEmptyFields ==
    /\ details \notin {NotCalled, JNull} => HasNonEmptyField(details)
    /\ transformationDetails # JNull => HasNonEmptyField(transformationDetails)

-----------------------------------------------------------------------------
(* Further properties of the transform workflow (Spec) *)

\* the text is empty or whitespace only
Blank(s) == \A i \in DOMAIN s : s[i] = SP

\* the text from its first to its last non-whitespace piece
Trimmed(s) ==
    LET solid == {i \in DOMAIN s : s[i] # SP}
    IN  IF solid = {} THEN <<>> ELSE SubSeq(s, Min(solid), Max(solid))

\* C18: for a style note that is empty or whitespace only, the message that
\* handleTransform passes to callAIAgent is the fixed brand-style instruction
\* alone, the same as with no note; for any other note it is the instruction
\* followed by ' Additional style direction: ' and the trimmed note.
C18_MessageFromStyleNote ==
    \A i \in DOMAIN runs :
        runs[i].pc = "callAIAgent" =>
            /\ Blank(runs[i].styleNote.s) =>
                  /\ runs[i].message = Str(<<INSTRUCTION>>)
                  /\ runs[i].message = buildMessage(Str(<<>>))
            /\ ~Blank(runs[i].styleNote.s) =>
                  runs[i].message = Str(<<INSTRUCTION, " Additional style direction: ">>
                                          \o Trimmed(runs[i].styleNote.s))

\* callAIAgent is awaited with the bare instruction for a whitespace-only note
C18_Witness ==
    \E i \in DOMAIN runs :
        /\ runs[i].pc = "callAIAgent"
        /\ runs[i].styleNote = Str(<<SP>>)
        /\ runs[i].message = Str(<<INSTRUCTION>>)

\* callAIAgent is awaited with the trimmed note appended
C18_WitnessTrimmed ==
    \E i \in DOMAIN runs :
        /\ runs[i].pc = "callAIAgent"
        /\ runs[i].styleNote = Str(<<"neon", SP, "glow", SP, SP>>)
        /\ runs[i].message =
              Str(<<INSTRUCTION, " Additional style direction: ", "neon", SP, "glow">>)

\* the step is a call of handleTransform, from either button, with no file selected
TransformWithoutFile ==
    /\ selectedFile = JNull
    /\ lastOp'.op \in {"Transform", "Try Again"}

\* C20: with no source file selected, handleTransform (from the Transform
\* button with sample data on, or from Try Again) is a no-op: it starts no
\* run, so calls neither uploadFiles nor callAIAgent, and leaves
\* isTransforming, statusMessage, resultImageUrl, transformationDetails and
\* the selected file unchanged; an Idle page stays Idle.
C20_NoFileNoOp ==
    [][TransformWithoutFile =>
          /\ ~lastOp'.started
          /\ UNCHANGED <<runs, isTransforming, statusMessage, resultImageUrl,
                         transformationDetails, selectedFile, previewUrl>>
          /\ (~isTransforming /\ runs = <<>>) => (~isTransforming' /\ runs' = <<>>)]_vars

\* Transform has been clicked with sample data on and no file selected, and
\* nothing has started
C20_Witness ==
    /\ lastOp.op = "Transform"
    /\ ~lastOp.started
    /\ selectedFile = JNull
    /\ useSampleData
    /\ ~isTransforming
    /\ runs = <<>>

\* Try Again has been clicked with no file selected, and nothing has started
C20_WitnessTryAgain ==
    /\ lastOp.op = "Try Again"
    /\ ~lastOp.started
    /\ selectedFile = JNull
    /\ error = JNull

\* the messages only the failure of a run puts into error
RunFailureMessages ==
    {Str(<<"Failed to upload image">>), Str(<<"Upload quota exceeded">>),
     Str(<<"Network error">>), Str(<<"Something went wrong. Please try again.">>),
     Str(<<"Agent failed">>), Str(<<"done">>), Str(<<"Transformation failed">>),
     Str(<<"No image was generated. Please try again.">>)}

\* C21: clicking Try Again with a file selected (as after a run that ended
\* in Failed) clears the error and starts a new run from Uploading with the
\* currently selected file and the current style note, so that uploadFiles is
\* called on that file again; the selected file is left as it is and no
\* selection is needed in between.
C21_RetryStartsNewRun ==
    [][(selectedFile # JNull /\ lastOp'.op = "Try Again") =>
          /\ lastOp'.started
          /\ error' = JNull
          /\ isTransforming'
          /\ statusMessage' = Str(<<"Uploading image...">>)
          /\ resultImageUrl' = JNull
          /\ Len(runs') = Len(runs) + 1
          /\ runs'[Len(runs')].pc = "uploadFiles"
          /\ runs'[Len(runs')].file = selectedFile
          /\ runs'[Len(runs')].styleNote = styleNote
          /\ runs'[Len(runs')].agentCalls = 0
          /\ UNCHANGED <<selectedFile, previewUrl, styleNote>>]_vars

\* Try Again has been clicked on the error of a failed run, with the file of
\* that run still selected, and uploadFiles is awaited on that file again
C21_Witness ==
    /\ lastOp.op = "Try Again"
    /\ lastOp.started
    /\ lastOp.shown \in RunFailureMessages
    /\ ~lastOp.busy
    /\ error = JNull
    /\ Len(runs) = 1
    /\ runs[1].pc = "uploadFiles"
    /\ runs[1].file = selectedFile
    /\ selectedFile # JNull

\* the last step was the end of a run that did not succeed
RunFailed == lastOp.op \in Settled /\ lastOp.ended /\ lastOp.phase = "Failed"

\* C22: every run of handleTransform that passes the selected-file guard and
\* does not end in Succeeded (upload failure, agent failure, failed
\* extraction, a thrown exception or a rejection of a collaborator) ends with
\* error a non-empty message string, so that the error box and Try Again are
\* shown, with isTransforming false and statusMessage null.
C22_FailureShowsMessage ==
    RunFailed =>
        /\ error.t = "string"
        /\ error.s # <<>>
        /\ ErrorBoxShown
        /\ ~isTransforming
        /\ statusMessage = JNull

\* C22 for the runs that do not end by a rejection with an Error
C22_UnlessErrorRejected ==
    (RunFailed /\ ~(lastOp.outcome.kind = "reject" /\ lastOp.outcome.isError)) =>
        /\ error.t = "string"
        /\ error.s # <<>>
        /\ ErrorBoxShown
        /\ ~isTransforming
        /\ statusMessage = JNull

\* the step is a handleFileSelect with a file of a type that is not accepted
InvalidFileSelected == lastOp'.op = "handleFileSelect" /\ ~lastOp'.accepted

\* C23: handleFileSelect with a file whose type is not image/png, image/jpeg
\* or image/webp sets error to the validation message and leaves
\* selectedFile, previewUrl, resultImageUrl, transformationDetails,
\* showComparison and isTransforming unchanged; it starts no upload and no
\* agent call.
C23_InvalidFileFrame ==
    [][InvalidFileSelected =>
          /\ error' = Str(<<"Please upload a PNG, JPG, or WEBP image.">>)
          /\ UNCHANGED <<selectedFile, previewUrl, resultImageUrl, transformationDetails,
                         showComparison, isTransforming, runs>>]_vars

\* a file of a type that is not accepted has been dropped while a result was
\* on display, and the result is still there
C23_Witness ==
    /\ lastOp.op = "handleFileSelect"
    /\ ~lastOp.accepted
    /\ error = Str(<<"Please upload a PNG, JPG, or WEBP image.">>)
    /\ Truthy(resultImageUrl)
    /\ selectedFile = JNull

\* the first of the values that is a non-empty string, else the fixed text
FirstMessage(values, fixed) ==
    LET some == {i \in DOMAIN values : values[i].t = "string" /\ values[i].s # <<>>}
    IN  IF some = {} THEN Str(<<fixed>>) ELSE values[Min(some)]

\* C24: the error recorded when a run fails: for an upload failure the
\* upload's error string when non-empty, else 'Failed to upload image'; for
\* an agent result with success false the first non-empty of result.error,
\* result.response.message, 'Transformation failed'; for a successful agent
\* result without an image reference 'No image was generated. Please try
\* again.'; for a thrown value that is not an Error 'Something went wrong.
\* Please try again.'.
C24_ErrorTexts ==
    RunFailed =>
        LET o == lastOp.outcome
        IN  /\ (o.kind = "resolve" /\ lastOp.op = "uploadFiles settled") =>
                  error = FirstMessage(<<Get(o.value, "error")>>, "Failed to upload image")
            /\ (o.kind = "resolve" /\ lastOp.op = "callAIAgent settled"
                   /\ ~Truthy(Get(o.value, "success"))) =>
                  error = FirstMessage(<<Get(o.value, "error"),
                                         Get(Get(o.value, "response"), "message")>>,
                                       "Transformation failed")
            /\ (o.kind = "resolve" /\ lastOp.op = "callAIAgent settled"
                   /\ Truthy(Get(o.value, "success"))) =>
                  error = Str(<<"No image was generated. Please try again.">>)
            /\ (o.kind = "reject" /\ ~o.isError) =>
                  error = Str(<<"Something went wrong. Please try again.">>)

\* a run has failed on an agent result with success false and no error, and
\* the response message is shown
C24_Witness ==
    /\ RunFailed
    /\ lastOp.op = "callAIAgent settled"
    /\ lastOp.outcome.kind = "resolve"
    /\ Get(lastOp.outcome.value, "error") = Undef
    /\ error = Str(<<"done">>)

\* a run has failed on a thrown value that is not an Error
C24_WitnessThrown ==
    /\ RunFailed
    /\ lastOp.outcome.kind = "reject"
    /\ ~lastOp.outcome.isError
    /\ error = Str(<<"Something went wrong. Please try again.">>)

\* the value of the first of the keys that r holds (anything but null),
\* undefined when it holds none
FirstPresent(r, keys) ==
    LET some == {i \in DOMAIN keys : Get(r, keys[i]) \notin {Undef, JNull}}
    IN  IF some = {} THEN Undef ELSE Get(r, keys[Min(some)])

\* a number, a boolean, a mapping or a sequence
IsNonString(v) == v.t \in {"number", "boolean", "object", "array"}

\* field number n of the record holds the serialization of the first present
\* candidate among keys, when that candidate is not a string
SerializedNotDropped(keys, n) ==
    LET v == FirstPresent(Get(Get(envelope, "response"), "result"), keys)
    IN  IsNonString(v) => (details # JNull /\ details.o[n][2] = Str(stringify(v)))

\* C26: in extractTransformationDetails no non-string value (a number, 0
\* included, a boolean, false included, a mapping, a sequence) at a candidate
\* key of response.result is dropped: when it is the first present candidate
\* of its field, the field holds its string serialization.
C26_NonStringsSerialized ==
    (calls = 1 /\ Get(Get(envelope, "response"), "result").t = "object") =>
        /\ SerializedNotDropped(DescKeys, 1)
        /\ SerializedNotDropped(StyleKeys, 2)
        /\ SerializedNotDropped(ColorKeys, 3)

\* C26 for the values other than 0 and false
C26_TruthyNonStringsSerialized ==
    LET r == Get(Get(envelope, "response"), "result")
        Kept(keys, n) ==
            (IsNonString(FirstPresent(r, keys)) /\ Truthy(FirstPresent(r, keys)))
                => (details # JNull /\ details.o[n][2] = Str(stringify(FirstPresent(r, keys))))
    IN  (calls = 1 /\ r.t = "object") =>
            (Kept(DescKeys, 1) /\ Kept(StyleKeys, 2) /\ Kept(ColorKeys, 3))

\* C27: in every reachable state of the page, under every interleaving of
\* user actions and collaborator completions, transformationDetails is
\* non-null only if resultImageUrl is non-null.
C27_DetailsOnlyWithResult ==
    transformationDetails # JNull => (resultImageUrl # JNull /\ Truthy(resultImageUrl))

\* a run has published details together with its result image
C27_Witness ==
    /\ lastOp.op = "callAIAgent settled"
    /\ lastOp.phase = "Succeeded"
    /\ transformationDetails # JNull
    /\ Truthy(resultImageUrl)

\* a result with details had been on display when the file was removed, and
\* both have gone
C27_WitnessCleared ==
    /\ lastOp.op = "handleRemoveFile"
    /\ lastOp.dirty
    /\ transformationDetails = JNull
    /\ resultImageUrl = JNull

\* C28: in no reachable state of the page, under any interleaving of file
\* selection, file removal, Transform, Try Again and collaborator
\* completions, are resultImageUrl and error both non-null.
C28_NeverResultAndError == ~(resultImageUrl # JNull /\ error # JNull)

-----------------------------------------------------------------------------
(* Termination of a run (SpecLive) *)

\* the last step was the end of a run: isTransforming false, statusMessage
\* null, and the result or the error set by that run
RunCompleted ==
    /\ lastOp.op \in Settled
    /\ lastOp.ended
    /\ ~isTransforming
    /\ statusMessage = JNull
    /\ \/ lastOp.phase = "Succeeded" /\ resultImageUrl # JNull
                                      /\ resultImageUrl = extractImageUrl(lastOp.outcome.value)
       \/ lastOp.phase = "Failed" /\ error # JNull

\* a run started on file is suspended at an await
Awaiting(file) == \E i \in DOMAIN runs : runs[i].file = file

\* C29: every run of handleTransform that passes the selected-file guard
\* eventually completes, provided each collaborator call it awaits eventually
\* resolves or rejects: isTransforming becomes false and statusMessage null,
\* with resultImageUrl or error set by that run.
C29_RunCompletes ==
    \A file \in Files : Awaiting(file) ~> (RunCompleted /\ lastOp.run.file = file)

\* a run that went through both awaits has completed
C29_Witness ==
    /\ RunCompleted
    /\ lastOp.op = "callAIAgent settled"
    /\ lastOp.phase = "Succeeded"
    /\ runs = <<>>

-----------------------------------------------------------------------------
(* The two variants of the page side by side (SpecApp) *)

\* what either variant may publish as resultImageUrl for an agent result
Publishable(outcome) ==
    IF outcome.kind = "reject" THEN {}
    ELSE LET artifactFiles == Get(Get(outcome.value, "module_outputs"), "artifact_files")
         IN  {extractImageUrl(outcome.value)}
             \union (IF NonEmptyArray(artifactFiles)
                     THEN {Get(Elem0(artifactFiles), "file_url")}
                     ELSE {})

\* from the present state, run i of src/app/page.tsx given outcome ends in
\* Succeeded and publishes url
AppSucceedsWith(i, outcome, url) ==
    ENABLED (/\ AgentSettledApp(i, outcome)
             /\ lastOp'.phase = "Succeeded"
             /\ resultImageUrl' = url)

\* from the present state, run i of src/unnamed/part_000 given outcome ends in
\* Succeeded and publishes url
PartSucceedsWith(i, outcome, url) ==
    ENABLED (/\ AgentSettled(i, outcome)
             /\ lastOp'.phase = "Succeeded"
             /\ resultImageUrl' = url)

\* C30: the two variants run on the same selected file, style note, upload
\* result and agent envelope: whenever the run of src/app/page.tsx ends in
\* Succeeded, the run of src/unnamed/part_000 also ends in Succeeded and
\* publishes the same resultImageUrl.
C30_AppSuccessImpliesPartSuccess ==
    \A i \in DOMAIN runs : \A outcome \in AgentOutcomes : \A url \in Publishable(outcome) :
        AppSucceedsWith(i, outcome, url) => PartSucceedsWith(i, outcome, url)

\* C30 for the agent results whose module_outputs.artifact_files[0].file_url
\* is non-empty
C30_WhenFileUrlPresent ==
    \A i \in DOMAIN runs : \A outcome \in AgentOutcomes : \A url \in Publishable(outcome) :
        (AppSucceedsWith(i, outcome, url) /\ Truthy(url)) => PartSucceedsWith(i, outcome, url)

====
